---------------------------- MODULE Spec2Model ----------------------------
(***************************************************************************)
(* GoAniGiffy: a sorted set of still images is cropped, scaled, rotated    *)
(* and flipped, quantized by a round trip through the GIF codec, and       *)
(* assembled into one animated GIF.                                        *)
(*                                                                         *)
(* src/goanigiffy.go holds two programs: the first main (lines 128-223),   *)
(* which calls CropImage/ScaleImage/RotateImage/FlipImage, and a second    *)
(* copy of main (lines 258-395) with the four operations written inline.   *)
(* The variable entry says which of the two is running.                    *)
(*                                                                         *)
(* An image is a record: w, h its pixel extent, src the half-open region   *)
(* of the decoded file it depicts, orient its orientation relative to the  *)
(* decoded file (an element r^k s^m of the dihedral group, r = rotate by   *)
(* 90 degrees counter-clockwise, s = horizontal mirror), and hist the      *)
(* geometry operations main has applied to it, in order.                   *)
(***************************************************************************)
EXTENDS Integers, Sequences, FiniteSets, TLC

\* ------------------------------------------------------------- bounds
\* The largest number of files the source pattern matches.
MaxFiles == 3

\* The largest loop count a user might want to configure.
MaxLoop == 2

\* ------------------------------------------------------------- inputs
Entries == {1, 2}

Rotates == {0, 90, 180, 270, 45}

Flips == {"none", "horizontal", "vertical", "diagonal"}

\* <<cropleft, croptop, cropwidth, cropheight>>
CropConfigs ==
    { <<0, 0, -1, -1>>,      \* the flag defaults: no crop
      <<10, 10, 50, 50>>,    \* inside a 100x100 image, outside an 8x6 one
      <<-5, 0, 50, 50>>,     \* negative left
      <<10, 0, -1, -1>>,     \* sentinel width and height with an offset
      <<0, 0, 2, -1>>,       \* a narrow strip, sentinel height
      <<0, 2, 8, -1>> }      \* sentinel height with a top offset

\* scale factors as <<numerator, denominator>>: 0.5, 1.0, 2.0
Scales == { <<1, 2>>, <<1, 1>>, <<2, 1>> }

Delays == {3, 5}

\* What a matched file holds: an undecodable file, or an image of a size.
FileKinds ==
    { [ok |-> FALSE, w |-> 0, h |-> 0],
      [ok |-> TRUE, w |-> 100, h |-> 100],
      [ok |-> TRUE, w |-> 8, h |-> 6] }

LoopCounts == 0..MaxLoop

VARIABLES
    entry,          \* which main is running
    rotate, flip, cropleft, croptop, cropwidth, cropheight, scale, delay,
    pc,             \* position in main
    srcfilenames,   \* the matched file names (ranks of the names)
    ctr,            \* loop index into srcfilenames, from 1
    img,            \* the image of the current iteration
    decoded,        \* the image imaging.Open returned in this iteration
    frames,         \* the quantized frames, each with the name of its file
    outcome,        \* per source handled so far: "ok", "open", "encode", "decode"
    delays,
    anim,           \* the gif.GIF handed to EncodeAll
    dest,           \* the destination file: "none", "empty", "partial", "written"
    exitCode        \* -1 while running

vars == << entry, rotate, flip, cropleft, croptop, cropwidth, cropheight,
           scale, delay, pc, srcfilenames, ctr, img, decoded, frames,
           outcome, delays, anim, dest, exitCode >>

config == << entry, rotate, flip, cropleft, croptop, scale, delay >>

NoImage == [w |-> 0, h |-> 0,
            src |-> [minx |-> 0, miny |-> 0, maxx |-> 0, maxy |-> 0],
            orient |-> <<0, 0>>, hist |-> << >>]

NoAnim == [Image |-> << >>, Delay |-> << >>, LoopCount |-> -1]

\* ------------------------------------------------------------- helpers
Min2(a, b) == IF a <= b THEN a ELSE b

Max2(a, b) == IF a >= b THEN a ELSE b

\* A check that lets every value through.
ValidRotateAny(r) == TRUE

\* lines 146 and 276
ValidRotate(r) == r = 0 \/ r = 90 \/ r = 180 \/ r = 270

\* lines 152 and 282
ValidFlip(f) == f = "none" \/ f = "horizontal" \/ f = "vertical"

\* image.Rect: the corners are swapped where needed to be well formed;
\* Min is inclusive, Max exclusive.
Rect(x0, y0, x1, y1) ==
    [minx |-> Min2(x0, x1), miny |-> Min2(y0, y1),
     maxx |-> Max2(x0, x1), maxy |-> Max2(y0, y1)]

ZR == [minx |-> 0, miny |-> 0, maxx |-> 0, maxy |-> 0]

EmptyRect(r) == r.minx >= r.maxx \/ r.miny >= r.maxy

Bounds(im) == [minx |-> 0, miny |-> 0, maxx |-> im.w, maxy |-> im.h]

Intersect(r, s) ==
    LET t == [minx |-> Max2(r.minx, s.minx), miny |-> Max2(r.miny, s.miny),
              maxx |-> Min2(r.maxx, s.maxx), maxy |-> Min2(r.maxy, s.maxy)]
    IN IF EmptyRect(t) THEN ZR ELSE t

Mark(op, im) == [im EXCEPT !.hist = Append(@, op)]

EmptyOf(im) == [im EXCEPT !.w = 0, !.h = 0, !.src = ZR]

IsEmptyImage(im) == im.w = 0 \/ im.h = 0

\* imaging.Crop: the rectangle is intersected with the image's bounds and
\* the part inside is copied to a new image whose origin is (0,0).
ImagingCrop(im, rect) ==
    LET r == Intersect(rect, Bounds(im))
    IN IF EmptyRect(r) THEN EmptyOf(im)
       ELSE [im EXCEPT !.w = r.maxx - r.minx, !.h = r.maxy - r.miny,
                       !.src = [minx |-> im.src.minx + r.minx,
                                miny |-> im.src.miny + r.miny,
                                maxx |-> im.src.minx + r.maxx,
                                maxy |-> im.src.miny + r.maxy]]

\* imaging.Resize: a negative target, two zero targets or an empty source
\* give an empty image; one zero target is replaced by the extent that keeps
\* the aspect ratio, at least one pixel (floor(x + 0.5)).
ImagingResize(im, width, height) ==
    IF width < 0 \/ height < 0 THEN EmptyOf(im)
    ELSE IF width = 0 /\ height = 0 THEN EmptyOf(im)
    ELSE IF im.w <= 0 \/ im.h <= 0 THEN EmptyOf(im)
    ELSE LET dstW == IF width = 0
                     THEN Max2(1, (2 * height * im.w + im.h) \div (2 * im.h))
                     ELSE width
             dstH == IF height = 0
                     THEN Max2(1, (2 * width * im.h + im.w) \div (2 * im.w))
                     ELSE height
         IN [im EXCEPT !.w = dstW, !.h = dstH]

\* int(float64(n) * scale), n >= 0 and scale > 0
ScaledExtent(n, sc) == (n * sc[1]) \div sc[2]

IsDefaultCrop(cl, ct, cw, ch) == cw = -1 /\ ch = -1 /\ cl = 0 /\ ct = 0

ResolveExtent(c, extent) == IF c = -1 THEN extent ELSE c

\* The plausible other reading of the rectangle: right/bottom edge exclusive
\* at left+width, top+height.
CropImageFullExtent(cl, ct, cw, ch, im) ==
    Mark("crop",
         IF ~IsDefaultCrop(cl, ct, cw, ch)
         THEN LET w == ResolveExtent(cw, im.w)
                  h == ResolveExtent(ch, im.h)
              IN ImagingCrop(im, Rect(cl, ct, cl + w, ct + h))
         ELSE im)

CropImage(cl, ct, cw, ch, im) ==
    Mark("crop",
         IF ~IsDefaultCrop(cl, ct, cw, ch)
         THEN LET w == ResolveExtent(cw, im.w)
                  h == ResolveExtent(ch, im.h)
              IN ImagingCrop(im, Rect(cl, ct, cl + w - 1, ct + h - 1))
         ELSE im)

ScaleImage(sc, im) ==
    Mark("scale",
         IF sc[1] # sc[2]
         THEN ImagingResize(im, ScaledExtent(im.w, sc), ScaledExtent(im.h, sc))
         ELSE im)

\* orientation r^k s^m after one more counter-clockwise quarter turn
Rotate90(im) ==
    [im EXCEPT !.w = im.h, !.h = im.w,
               !.orient = <<(im.orient[1] + 1) % 4, im.orient[2]>>]

Rotate180(im) == Rotate90(Rotate90(im))

Rotate270(im) == Rotate90(Rotate180(im))

\* s r^k s^m = r^(-k) s^(m+1)
FlipH(im) ==
    [im EXCEPT !.orient = <<(4 - im.orient[1]) % 4, (im.orient[2] + 1) % 2>>]

\* the vertical mirror is r^2 s
FlipV(im) == Rotate180(FlipH(im))

RotateImage(rot, im) ==
    Mark("rotate",
         CASE rot = 90 -> Rotate90(im)
           [] rot = 180 -> Rotate180(im)
           [] rot = 270 -> Rotate270(im)
           [] OTHER -> im)

FlipImage(fl, im) ==
    Mark("flip",
         CASE fl = "horizontal" -> FlipH(im)
           [] fl = "vertical" -> FlipV(im)
           [] OTHER -> im)

\* A plausible slip: the image is resized before it is cropped.
PipelineScaleFirst(cl, ct, cw, ch, sc, rot, fl, im) ==
    FlipImage(fl, RotateImage(rot, CropImage(cl, ct, cw, ch, ScaleImage(sc, im))))

\* first main, lines 186-189
Pipeline(cl, ct, cw, ch, sc, rot, fl, im) ==
    FlipImage(fl, RotateImage(rot, ScaleImage(sc, CropImage(cl, ct, cw, ch, im))))

\* second main, lines 312-361: the same four steps inline; the crop block
\* works on the flag variables themselves (see Transform2 for what it
\* leaves in them).
Pipeline2(cl, ct, cw, ch, sc, rot, fl, im) ==
    LET cropped ==
            Mark("crop",
                 IF ~IsDefaultCrop(cl, ct, cw, ch)
                 THEN LET w == ResolveExtent(cw, im.w)
                          h == ResolveExtent(ch, im.h)
                      IN ImagingCrop(im, Rect(cl, ct, cl + w - 1, ct + h - 1))
                 ELSE im)
        scaled ==
            Mark("scale",
                 IF sc[1] # sc[2]
                 THEN ImagingResize(cropped, ScaledExtent(cropped.w, sc),
                                    ScaledExtent(cropped.h, sc))
                 ELSE cropped)
        rotated ==
            Mark("rotate",
                 CASE rot = 90 -> Rotate90(scaled)
                   [] rot = 180 -> Rotate180(scaled)
                   [] rot = 270 -> Rotate270(scaled)
                   [] OTHER -> scaled)
    IN Mark("flip",
            CASE fl = "horizontal" -> FlipH(rotated)
              [] fl = "vertical" -> FlipV(rotated)
              [] OTHER -> rotated)

\* sort.Strings, as an insertion sort over the ranks of the names
RECURSIVE InsertSorted(_, _)
InsertSorted(x, s) ==
    IF s = << >> THEN <<x>>
    ELSE IF x <= Head(s) THEN <<x>> \o s
    ELSE <<Head(s)>> \o InsertSorted(x, Tail(s))

RECURSIVE SortStrings(_)
SortStrings(s) ==
    IF s = << >> THEN << >> ELSE InsertSorted(Head(s), SortStrings(Tail(s)))

\* the orders in which filepath.Glob may list n matches
GlobOrders(n) ==
    { p \in [1..n -> 1..n] : \A i, j \in 1..n : i # j => p[i] # p[j] }

\* gif.Encode followed by gif.Decode. Encode refuses an image of 2^16
\* pixels or more in either direction. What the round trip does with an
\* image of no pixels depends on the Go release, so each outcome is possible.
QuantizeOutcomes(im) ==
    IF im.w >= 2^16 \/ im.h >= 2^16 THEN {"encode"}
    ELSE IF IsEmptyImage(im) THEN {"ok", "encode", "decode"}
    ELSE {"ok"}

\* A delay list one entry short.
MakeDelaysShort(n, d) == [j \in 1..(n - 1) |-> d]

\* lines 209-212
MakeDelays(n, d) == [j \in 1..n |-> d]

\* A loop count of -1 makes the animation play once.
GIFPlayOnce(frs, dls) == [Image |-> frs, Delay |-> dls, LoopCount |-> -1]

\* line 219: &gif.GIF{frames, delays, 0}
GIF(frs, dls) == [Image |-> frs, Delay |-> dls, LoopCount |-> 0]

\* gif.EncodeAll: no image is an error before anything is written. A frame
\* that reaches beyond the first frame's extent is refused by later Go
\* releases after the earlier frames were written, and accepted by earlier
\* ones.
EncodeAllOutcomes(g) ==
    IF Len(g.Image) = 0 THEN {"empty"}
    ELSE IF \E i \in 1..Len(g.Image) :
                g.Image[i].w > g.Image[1].w \/ g.Image[i].h > g.Image[1].h
         THEN {"written", "partial"}
         ELSE {"written"}

\* imaging.Open on a file that decodes: origin (0,0), nothing applied yet
Decoded(f) ==
    [w |-> f.w, h |-> f.h, src |-> Rect(0, 0, f.w, f.h),
     orient |-> <<0, 0>>, hist |-> << >>]

\* the *image.Paletted the round trip returns, with the file it came from
Frame(name, im) ==
    [name |-> name, w |-> im.w, h |-> im.h, src |-> im.src,
     orient |-> im.orient, hist |-> im.hist]

\* ------------------------------------------------------------- actions
Init ==
    /\ entry \in Entries
    /\ rotate \in Rotates
    /\ flip \in Flips
    /\ \E c \in CropConfigs :
          /\ cropleft = c[1]
          /\ croptop = c[2]
          /\ cropwidth = c[3]
          /\ cropheight = c[4]
    /\ scale \in Scales
    /\ delay \in Delays
    /\ pc = "checkRotate"
    /\ srcfilenames = << >>
    /\ ctr = 0
    /\ img = NoImage
    /\ decoded = NoImage
    /\ frames = << >>
    /\ outcome = << >>
    /\ delays = << >>
    /\ anim = NoAnim
    /\ dest = "none"
    /\ exitCode = -1

\* os.Exit(1) and log.Fatalf
Fatal ==
    /\ pc' = "exit"
    /\ exitCode' = 1

\* lines 146-150 and 276-280
CheckRotate ==
    /\ pc = "checkRotate"
    /\ IF ~ValidRotate(rotate)
       THEN Fatal
       ELSE pc' = "checkFlip" /\ UNCHANGED exitCode
    /\ UNCHANGED << config, cropwidth, cropheight, srcfilenames, ctr, img,
                    decoded, frames, outcome, delays, anim, dest >>

\* lines 152-156 and 282-286
CheckFlip ==
    /\ pc = "checkFlip"
    /\ IF ~ValidFlip(flip)
       THEN Fatal
       ELSE pc' = "glob" /\ UNCHANGED exitCode
    /\ UNCHANGED << config, cropwidth, cropheight, srcfilenames, ctr, img,
                    decoded, frames, outcome, delays, anim, dest >>

\* first main, lines 158-165: a malformed pattern and an empty match are fatal
Glob ==
    /\ pc = "glob"
    /\ entry = 1
    /\ \E err \in BOOLEAN, n \in 0..MaxFiles :
          \E p \in GlobOrders(n) :
             IF err
             THEN Fatal /\ UNCHANGED srcfilenames
             ELSE /\ srcfilenames' = p
                  /\ IF Len(p) = 0
                     THEN Fatal
                     ELSE pc' = "sort" /\ UNCHANGED exitCode
    /\ UNCHANGED << config, cropwidth, cropheight, ctr, img, decoded, frames,
                    outcome, delays, anim, dest >>

\* second main, lines 288-291: only a malformed pattern is fatal
Glob2 ==
    /\ pc = "glob"
    /\ entry = 2
    /\ \E err \in BOOLEAN, n \in 0..MaxFiles :
          \E p \in GlobOrders(n) :
             IF err
             THEN Fatal /\ UNCHANGED srcfilenames
             ELSE /\ srcfilenames' = p
                  /\ pc' = "sort"
                  /\ UNCHANGED exitCode
    /\ UNCHANGED << config, cropwidth, cropheight, ctr, img, decoded, frames,
                    outcome, delays, anim, dest >>

\* lines 171-175 and 297-301: sort, an empty frame list, the loop starts
Sort ==
    /\ pc = "sort"
    /\ srcfilenames' = SortStrings(srcfilenames)
    /\ frames' = << >>
    /\ ctr' = 1
    /\ pc' = "open"
    /\ UNCHANGED << config, cropwidth, cropheight, img, decoded, outcome,
                    delays, anim, dest, exitCode >>

\* A failed open that ends the run instead of skipping the file.
OpenFileFatal ==
    /\ pc = "open"
    /\ ctr <= Len(srcfilenames)
    /\ \E f \in FileKinds :
          IF ~f.ok
          THEN /\ outcome' = Append(outcome, "open")
               /\ Fatal
               /\ UNCHANGED << ctr, img, decoded >>
          ELSE /\ decoded' = Decoded(f)
               /\ img' = Decoded(f)
               /\ pc' = "transform"
               /\ UNCHANGED << outcome, ctr, exitCode >>
    /\ UNCHANGED << config, cropwidth, cropheight, srcfilenames, frames,
                    delays, anim, dest >>

\* lines 175-180 and 301-306: a file that cannot be read is skipped
OpenFile ==
    /\ pc = "open"
    /\ ctr <= Len(srcfilenames)
    /\ \E f \in FileKinds :
          IF ~f.ok
          THEN /\ outcome' = Append(outcome, "open")
               /\ ctr' = ctr + 1
               /\ pc' = "open"
               /\ UNCHANGED << img, decoded >>
          ELSE /\ decoded' = Decoded(f)
               /\ img' = Decoded(f)
               /\ pc' = "transform"
               /\ UNCHANGED << outcome, ctr >>
    /\ UNCHANGED << config, cropwidth, cropheight, srcfilenames, frames,
                    delays, anim, dest, exitCode >>

\* first main, lines 186-189: the flags are passed by value
Transform ==
    /\ pc = "transform"
    /\ entry = 1
    /\ img' = Pipeline(cropleft, croptop, cropwidth, cropheight, scale,
                       rotate, flip, img)
    /\ pc' = "quantize"
    /\ UNCHANGED << config, cropwidth, cropheight, srcfilenames, ctr, decoded,
                    frames, outcome, delays, anim, dest, exitCode >>

\* second main, lines 312-361: the crop block stores the resolved extent
\* into *cropwidth and *cropheight
Transform2 ==
    /\ pc = "transform"
    /\ entry = 2
    /\ img' = Pipeline2(cropleft, croptop, cropwidth, cropheight, scale,
                        rotate, flip, img)
    /\ IF ~IsDefaultCrop(cropleft, croptop, cropwidth, cropheight)
       THEN /\ cropwidth' = ResolveExtent(cropwidth, img.w)
            /\ cropheight' = ResolveExtent(cropheight, img.h)
       ELSE UNCHANGED << cropwidth, cropheight >>
    /\ pc' = "quantize"
    /\ UNCHANGED << config, srcfilenames, ctr, decoded, frames, outcome,
                    delays, anim, dest, exitCode >>

\* lines 191-202 and 363-374: gif.Encode, gif.Decode, append
Quantize ==
    /\ pc = "quantize"
    /\ \E o \in QuantizeOutcomes(img) :
          /\ outcome' = Append(outcome, o)
          /\ frames' = IF o = "ok"
                       THEN Append(frames, Frame(srcfilenames[ctr], img))
                       ELSE frames
    /\ ctr' = ctr + 1
    /\ pc' = "open"
    /\ UNCHANGED << config, cropwidth, cropheight, srcfilenames, img, decoded,
                    delays, anim, dest, exitCode >>

\* the range loop is over
LoopDone ==
    /\ pc = "open"
    /\ ctr > Len(srcfilenames)
    /\ pc' = "delays"
    /\ UNCHANGED << config, cropwidth, cropheight, srcfilenames, ctr, img,
                    decoded, frames, outcome, delays, anim, dest, exitCode >>

\* lines 209-212 and 381-384
FillDelays ==
    /\ pc = "delays"
    /\ delays' = MakeDelays(Len(frames), delay)
    /\ pc' = "create"
    /\ UNCHANGED << config, cropwidth, cropheight, srcfilenames, ctr, img,
                    decoded, frames, outcome, anim, dest, exitCode >>

\* lines 214-217 and 386-389: os.Create leaves an empty file, or fails
CreateFile ==
    /\ pc = "create"
    /\ \E ok \in BOOLEAN :
          IF ok
          THEN dest' = "empty" /\ pc' = "encodeAll" /\ UNCHANGED exitCode
          ELSE Fatal /\ UNCHANGED dest
    /\ UNCHANGED << config, cropwidth, cropheight, srcfilenames, ctr, img,
                    decoded, frames, outcome, delays, anim >>

\* lines 219-223 and 391-395: an EncodeAll error is printed, the file is
\* closed and main returns
EncodeAll ==
    /\ pc = "encodeAll"
    /\ anim' = GIF(frames, delays)
    /\ \E o \in EncodeAllOutcomes(GIF(frames, delays)) : dest' = o
    /\ pc' = "exit"
    /\ exitCode' = 0
    /\ UNCHANGED << config, cropwidth, cropheight, srcfilenames, ctr, img,
                    decoded, frames, outcome, delays >>

Next ==
    \/ CheckRotate
    \/ CheckFlip
    \/ Glob
    \/ Glob2
    \/ Sort
    \/ OpenFile
    \/ Transform
    \/ Transform2
    \/ Quantize
    \/ LoopDone
    \/ FillDelays
    \/ CreateFile
    \/ EncodeAll

Spec == Init /\ [][Next]_vars

TypeOK ==
    /\ pc \in {"checkRotate", "checkFlip", "glob", "sort", "open",
               "transform", "quantize", "delays", "create", "encodeAll",
               "exit"}
    /\ dest \in {"none", "empty", "partial", "written"}
    /\ exitCode \in {-1, 0, 1}
    /\ ctr \in 0..(MaxFiles + 2)
    /\ Len(outcome) <= Len(srcfilenames)

\* ------------------------------------------------------------- claims
\* EncodeAll is the only step that ends the run with status 0.
Assembled == pc = "exit" /\ exitCode = 0

OkCount == Cardinality({ i \in 1..Len(outcome) : outcome[i] = "ok" })

FourOps == << "crop", "scale", "rotate", "flip" >>

\* the extent the crop of the current iteration works with
UsedWidth == ResolveExtent(cropwidth, decoded.w)

UsedHeight == ResolveExtent(cropheight, decoded.h)

CropRequested == ~(cropwidth = -1 /\ cropheight = -1 /\ cropleft = 0 /\ croptop = 0)

CropInside ==
    /\ cropleft >= 0
    /\ croptop >= 0
    /\ UsedWidth > 0
    /\ UsedHeight > 0
    /\ cropleft + UsedWidth <= decoded.w
    /\ croptop + UsedHeight <= decoded.h

\* C1: once the delays are filled and when the animation is assembled, there
\* are as many frames as sources whose open, transform and quantization
\* succeeded, as many delays as frames, and every delay is the -delay flag;
\* the animation holds exactly these frames and delays.
C1_FramesAndDelays ==
    /\ pc \in {"create", "encodeAll"} \/ Assembled =>
          /\ Len(frames) = OkCount
          /\ Len(delays) = Len(frames)
          /\ \A j \in 1..Len(delays) : delays[j] = delay
    /\ Assembled =>
          /\ anim.Image = frames
          /\ anim.Delay = delays

C1_Witness ==
    /\ Assembled
    /\ Len(outcome) = 3
    /\ Len(anim.Image) = 2
    /\ anim.Delay = << 5, 5 >>

\* C2: a source that fails is skipped and nothing else: inside the loop every
\* source before ctr has exactly one outcome, the run leaves the loop only
\* when every source has one, the frames are those of the sources that
\* succeeded, in the order of the sorted names, a run that entered the loop
\* never ends before the loop is over, and once the destination file exists
\* it ends with status 0.
C2_SkipAndContinue ==
    /\ ctr > 0 =>
          /\ \A i \in 1..(Len(srcfilenames) - 1) :
                srcfilenames[i] < srcfilenames[i + 1]
          /\ Len(outcome) = ctr - 1
          /\ Len(frames) = OkCount
          /\ \A i \in 1..(Len(frames) - 1) : frames[i].name < frames[i + 1].name
          /\ { frames[i].name : i \in 1..Len(frames) }
                = { srcfilenames[i] : i \in { k \in 1..Len(outcome) : outcome[k] = "ok" } }
    /\ ctr > 0 /\ pc \in {"delays", "create", "encodeAll", "exit"} =>
          Len(outcome) = Len(srcfilenames)
    /\ ctr > 0 /\ pc = "exit" /\ dest # "none" => exitCode = 0

C2_Witness ==
    /\ Assembled
    /\ outcome = << "ok", "open", "ok" >>
    /\ Len(frames) = 2
    /\ frames[1].name = 1
    /\ frames[2].name = 3
    /\ dest = "written"

\* C3: when sources were matched and every one of them failed, the run ends
\* with a non-zero status and without a destination file.
C3_AllFailIsFatal ==
    ( /\ pc = "exit"
      /\ ctr > 0
      /\ Len(srcfilenames) > 0
      /\ Len(outcome) = Len(srcfilenames)
      /\ frames = << >> )
    => (exitCode # 0 /\ dest = "none")

\* C4: in both mains, the image that reaches quantization went through
\* crop, scale, rotate, flip, once each and in this order, each on the result
\* of the one before, starting from the decoded image; every frame kept is
\* such an image, and no operation is applied before the transform step.
C4_FixedOrder ==
    /\ pc = "transform" => img.hist = << >>
    /\ pc = "quantize" =>
          /\ img.hist = FourOps
          /\ img = FlipImage(flip,
                     RotateImage(rotate,
                       ScaleImage(scale,
                         CropImage(cropleft, croptop, cropwidth, cropheight,
                                   decoded))))
    /\ \A i \in 1..Len(frames) : frames[i].hist = FourOps

C4_Witness ==
    /\ entry = 2
    /\ pc = "quantize"
    /\ CropRequested
    /\ scale = << 1, 2 >>
    /\ rotate = 90
    /\ flip = "vertical"
    /\ Len(frames) = 1

\* C5: a requested crop rectangle inside the image gives an image of exactly
\* width x height pixels showing columns left..left+width-1 and rows
\* top..top+height-1 (seen without scale or rotation); and the crop
\* (10,10,50,50) scaled by 2 gives a 100x100 image.
C5_CropExactExtent ==
    /\ ( /\ pc = "quantize"
         /\ CropRequested
         /\ CropInside
         /\ scale = << 1, 1 >>
         /\ rotate = 0 )
       => /\ img.w = UsedWidth
          /\ img.h = UsedHeight
          /\ img.src = [minx |-> cropleft, miny |-> croptop,
                        maxx |-> cropleft + UsedWidth,
                        maxy |-> croptop + UsedHeight]
    /\ ( /\ pc = "quantize"
         /\ << cropleft, croptop, cropwidth, cropheight >> = << 10, 10, 50, 50 >>
         /\ CropInside
         /\ scale = << 2, 1 >> )
       => (img.w = 100 /\ img.h = 100)

C7_InvalidEnumExitsFirst ==
    ( rotate \notin {0, 90, 180, 270} \/ flip \notin {"none", "horizontal", "vertical"} )
    => /\ pc \in {"checkRotate", "checkFlip", "exit"}
       /\ pc = "exit" => exitCode = 1
       /\ srcfilenames = << >>
       /\ ctr = 0
       /\ decoded = NoImage
       /\ outcome = << >>
       /\ frames = << >>
       /\ dest = "none"

C7_Witness ==
    /\ pc = "exit"
    /\ exitCode = 1
    /\ rotate = 90
    /\ flip = "diagonal"

\* C8: in both mains, once the pattern has matched no file the run is over
\* with a non-zero status: it does not reach the frame loop and creates no
\* destination file.
C8_NoMatchIsFatal ==
    ( pc \notin {"checkRotate", "checkFlip", "glob"} /\ srcfilenames = << >> )
    => /\ pc \in {"sort", "exit"}
       /\ pc = "exit" => exitCode # 0
       /\ dest = "none"

C10_ConfigReadOnly ==
    [][ /\ cropwidth' = cropwidth
        /\ cropheight' = cropheight
        /\ config' = config ]_vars
=============================================================================
